---- MODULE Spec2Model ----
(***************************************************************************)
(* A model of the properties library: the property store with its          *)
(* recursive ${key} expansion (properties.go), the parser that fills the   *)
(* store from the token stream (parser.go), the loader (load.go) and the   *)
(* lexer goroutine that feeds the parser through a channel (doc.go).       *)
(* Strings are sequences of one-character strings.                         *)
(***************************************************************************)
EXTENDS Integers, Sequences, FiniteSets, TLC

\* ------------------------------------------------------------------------
\* Bounds of the model
\* ------------------------------------------------------------------------

\* A value is a concatenation of at most MaxParts parts (see Parts).
MaxParts == 2

\* ------------------------------------------------------------------------
\* Strings
\* ------------------------------------------------------------------------

\* Go's s[i:j] (0-based, j exclusive).
Slice(s, i, j) == SubSeq(s, i + 1, j)

\* Go's strings.Index: the 0-based index of the first occurrence of sub in
\* s, or -1.
Index(s, sub) ==
    LET hits == {i \in 0..(Len(s) - Len(sub)) : Slice(s, i, i + Len(sub)) = sub}
    IN IF hits = {} THEN -1 ELSE CHOOSE i \in hits : \A j \in hits : i <= j

\* The characters strings.TrimSpace removes.
WhiteSpace == {" ", "\t", "\n", "\r", "\f"}

RECURSIVE TrimLeft(_)
TrimLeft(s) ==
    IF s # <<>> /\ Head(s) \in WhiteSpace THEN TrimLeft(Tail(s)) ELSE s

RECURSIVE TrimRight(_)
TrimRight(s) ==
    IF s # <<>> /\ s[Len(s)] \in WhiteSpace
    THEN TrimRight(SubSeq(s, 1, Len(s) - 1))
    ELSE s

\* Go's strings.TrimSpace.
TrimSpace(s) == TrimRight(TrimLeft(s))

RECURSIVE Flatten(_)
Flatten(ss) == IF ss = <<>> THEN <<>> ELSE Head(ss) \o Flatten(Tail(ss))

\* ------------------------------------------------------------------------
\* The property store: expansion
\* ------------------------------------------------------------------------

\* NewProperties: the default configuration for "${key}" expressions.
Prefix == <<"$", "{">>
Postfix == <<"}">>

NoErr == "nil"
Malformed == "Malformed expression"
Circular == "Circular reference"

\* The keys of the model and the placeholder that names a key.
Keys == {<<"a">>, <<"b">>}
Ph(key) == Prefix \o key \o Postfix

\* The building blocks of the values of the model: a literal, a placeholder
\* for each key, and a prefix that opens a placeholder and never closes it.
Parts == {<<"x">>, Prefix} \cup {Ph(key) : key \in Keys}
ValuesOf(n) == {Flatten(ps) : ps \in UNION {[1..i -> Parts] : i \in 0..n}}
Values == ValuesOf(MaxParts)

\* The process environment: it holds a variable that is named like the
\* first key of the model and none that is named like the second one, for
\* which os.Getenv answers "".
Env == (<<"a">> :> <<"e">>)
Getenv(key) == IF key \in DOMAIN Env THEN Env[key] ELSE <<>>

\* An expansion that asks the environment before the store.
resolveEnvFirst(values, key) ==
    IF key \in DOMAIN Env THEN Env[key]
    ELSE IF key \in DOMAIN values THEN values[key] ELSE <<>>

\* expand, lines 389-392: the value of a key is the one of the store, and
\* the one of the environment when the store does not hold the key.
resolve(values, key) ==
    IF key \in DOMAIN values THEN values[key] ELSE Getenv(key)

\* expand (properties.go): replaces the leftmost '(prefix)key(postfix)' by
\* the value of key and recurses on the result; keys holds the keys already
\* expanded in this call.  With the result come the number of recursive
\* calls that were made (n) and the keys that were expanded (seen).
\* A replacement that puts the value at the end of the text.
spliceAtEnd(s, start, end, val) ==
    Slice(s, 0, start) \o Slice(s, end + 1, Len(s)) \o val

\* s[:start]+val+s[end+1:], line 397: the span from start to end is
\* replaced by the value.
splice(s, start, end, val) ==
    Slice(s, 0, start) \o val \o Slice(s, end + 1, Len(s))

RECURSIVE expand(_, _, _, _, _)
expand(s, keys, prefix, postfix, values) ==
    LET start == Index(s, prefix) IN
    IF start = -1 THEN [val |-> s, err |-> NoErr, n |-> 0, seen |-> keys]
    ELSE
      LET keyStart == start + Len(prefix)
          keyLen == Index(Slice(s, keyStart, Len(s)), postfix)
      IN
      IF keyLen = -1
      THEN [val |-> <<>>, err |-> Malformed, n |-> 0, seen |-> keys]
      ELSE
        LET end == keyStart + keyLen + Len(postfix) - 1
            key == Slice(s, keyStart, keyStart + keyLen)
        IN
        IF key \in keys
        THEN [val |-> <<>>, err |-> Circular, n |-> 0, seen |-> keys]
        ELSE
          LET val == resolve(values, key)
          IN [expand(splice(s, start, end, val),
                     keys \cup {key}, prefix, postfix, values)
                EXCEPT !.n = @ + 1]

\* Properties.expand: no pre/postfix -> nothing to expand; otherwise expand
\* with a fresh set of seen keys.
PExpand(mm, input) ==
    IF Prefix = <<>> /\ Postfix = <<>>
    THEN [val |-> input, err |-> NoErr, n |-> 0, seen |-> {}]
    ELSE expand(input, {}, Prefix, Postfix, mm)

\* A Get that swallows the expansion error and hands out the raw value.
GetRaw(mm, key) ==
    IF key \notin DOMAIN mm
    THEN [val |-> <<>>, ok |-> FALSE, err |-> NoErr, out |-> "ok"]
    ELSE LET e == PExpand(mm, mm[key]) IN
         [val |-> IF e.err # NoErr THEN mm[key] ELSE e.val,
          ok |-> TRUE, err |-> NoErr, out |-> "ok"]

\* Properties.Get: the expanded value of key; ok is false when key is not
\* in the store; Get panics with the expansion error when the value does
\* not expand.  out is "ok" or "panic".
Get(mm, key) ==
    IF key \notin DOMAIN mm
    THEN [val |-> <<>>, ok |-> FALSE, err |-> NoErr, out |-> "ok"]
    ELSE LET e == PExpand(mm, mm[key]) IN
         IF e.err # NoErr
         THEN [val |-> <<>>, ok |-> FALSE, err |-> e.err, out |-> "panic"]
         ELSE [val |-> e.val, ok |-> TRUE, err |-> NoErr, out |-> "ok"]

\* The store with key mapped to value.
Assign(mm, key, value) ==
    [x \in DOMAIN mm \cup {key} |-> IF x = key THEN value ELSE mm[x]]

\* A Set that stores the value without expanding it first.
SetUnchecked(mm, key, value) ==
    LET g == Get(mm, key) IN
    IF g.out = "panic"
    THEN [val |-> <<>>, ok |-> FALSE, err |-> g.err, out |-> "panic", mm |-> mm]
    ELSE [val |-> g.val, ok |-> g.ok, err |-> NoErr, out |-> "ok",
          mm |-> Assign(mm, key, value)]

\* A Set that answers with whatever the map held, empty or not.
SetPrevAbsent(mm, key, value) ==
    LET e == PExpand(mm, value) IN
    IF e.err # NoErr
    THEN [val |-> <<>>, ok |-> FALSE, err |-> e.err, out |-> "error", mm |-> mm]
    ELSE LET g == Get(mm, key) IN
         IF g.out = "panic"
         THEN [val |-> <<>>, ok |-> FALSE, err |-> g.err, out |-> "panic", mm |-> mm]
         ELSE [val |-> g.val, ok |-> g.val # <<>>, err |-> NoErr, out |-> "ok",
               mm |-> Assign(mm, key, value)]

\* A Set that keeps the value of a key that is already in the store.
SetKeep(mm, key, value) ==
    LET e == PExpand(mm, value) IN
    IF e.err # NoErr
    THEN [val |-> <<>>, ok |-> FALSE, err |-> e.err, out |-> "error", mm |-> mm]
    ELSE LET g == Get(mm, key) IN
         IF g.out = "panic"
         THEN [val |-> <<>>, ok |-> FALSE, err |-> g.err, out |-> "panic", mm |-> mm]
         ELSE [val |-> g.val, ok |-> g.ok, err |-> NoErr, out |-> "ok",
               mm |-> IF key \in DOMAIN mm THEN mm ELSE Assign(mm, key, value)]

\* A Set that stores the new value before it finds that it does not expand.
SetThenCheck(mm, key, value) ==
    LET e == PExpand(mm, value) IN
    IF e.err # NoErr
    THEN [val |-> <<>>, ok |-> FALSE, err |-> e.err, out |-> "error",
          mm |-> Assign(mm, key, value)]
    ELSE LET g == Get(mm, key) IN
         IF g.out = "panic"
         THEN [val |-> <<>>, ok |-> FALSE, err |-> g.err, out |-> "panic", mm |-> mm]
         ELSE [val |-> g.val, ok |-> g.ok, err |-> NoErr, out |-> "ok",
               mm |-> Assign(mm, key, value)]

\* Properties.Set: expands the new value first and returns the error when
\* that fails; otherwise asks Get for the previous value (which may panic)
\* and stores the new value.  mm is the store after the call.
Set(mm, key, value) ==
    LET e == PExpand(mm, value) IN
    IF e.err # NoErr
    THEN [val |-> <<>>, ok |-> FALSE, err |-> e.err, out |-> "error", mm |-> mm]
    ELSE LET g == Get(mm, key) IN
         IF g.out = "panic"
         THEN [val |-> <<>>, ok |-> FALSE, err |-> g.err, out |-> "panic", mm |-> mm]
         ELSE [val |-> g.val, ok |-> g.ok, err |-> NoErr, out |-> "ok",
               mm |-> [x \in DOMAIN mm \cup {key} |->
                          IF x = key THEN value ELSE mm[x]]]

\* Properties.Len: the number of keys.
PLen(mm) == Cardinality(DOMAIN mm)

\* Properties.check: expands all values and returns the first error met;
\* the map is iterated in no fixed order, so any failing value may be the
\* first.  CheckErrs is the set of errors check can return ({} = nil).
CheckErrs(mm) == {PExpand(mm, mm[x]).err : x \in DOMAIN mm} \ {NoErr}

\* ------------------------------------------------------------------------
\* The parser and the loader
\* ------------------------------------------------------------------------

\* The parser receives at most MaxTokens tokens before the token that ends
\* the parse.
MaxTokens == 5

\* The token stream the parser reads with nextItem: comments, keys, values,
\* the end of the input (which may carry the text of a last comment line),
\* and the token the parser never expects (a lexer error).
KeyTokens == {[typ |-> "itemKey", val |-> v] : v \in {<<"a">>, <<"b", " ">>}}
ValueTokens == {[typ |-> "itemValue", val |-> v] : v \in {<<>>} \cup Parts}
CommentTokens == {[typ |-> "itemComment", val |-> <<" ", "#", "c">>]}
EOFTokens == {[typ |-> "itemEOF", val |-> v] : v \in {<<>>, <<"#", "e">>}}
OtherTokens == {[typ |-> "itemError", val |-> <<"premature EOF">>]}

\* ------------------------------------------------------------------------
\* The lexer
\* ------------------------------------------------------------------------

\* The lexer scans an input of at most MaxInput characters.
MaxInput == 3

\* The characters of the inputs: a key character, the space, a delimiter and
\* the line break.
Alphabet == {"a", " ", "=", "\n"}
Inputs == UNION {[1..n -> Alphabet] : n \in 0..MaxInput}

NoItem == [typ |-> "none", pos |-> 0, val |-> <<>>]
Item(t, at, value) == [typ |-> t, pos |-> at, val |-> value]

\* acceptRun(" ") from position p: the position behind the run of spaces.
RECURSIVE acceptRun(_, _)
acceptRun(in, p) ==
    IF p < Len(in) /\ in[p + 1] = " " THEN acceptRun(in, p + 1) ELSE p

\* The position of the first character from p on that is in term, or
\* Len(in) when the input ends before one is met.
RECURSIVE scanTo(_, _, _)
scanTo(in, p, term) ==
    IF p >= Len(in) \/ in[p + 1] \in term THEN p ELSE scanTo(in, p + 1, term)

\* acceptUntil(term) from position p, lines 144-147: r is read once, before
\* the loop; the condition of the loop tests the same r again and again and
\* its body reads nothing.  The call ends only when that first rune is the
\* end of the input or term; pos is the position behind the rune read.
acceptUntil(in, p, term) ==
    LET r == IF p >= Len(in) THEN "eof" ELSE in[p + 1]
    IN [pos |-> IF p >= Len(in) THEN p ELSE p + 1,
        ends |-> r = "eof" \/ r = term]

\* A state function runs until it blocks in a send on l.items or returns.
\* A segment of a run is described by the position and the start it leaves
\* in the lexer, the item it blocks on with the place where it goes on
\* after the send (cont), or the state function it returns (ret).
Blocked(p, s, it, label) == [pos |-> p, start |-> s, send |-> it, cont |-> label, ret |-> ""]
Returned(p, s, fn) == [pos |-> p, start |-> s, send |-> NoItem, cont |-> "", ret |-> fn]

\* lexKey behind the key: ignore the trailing spaces, go on with lexDelim.
lexKeyTail(in, p) == Returned(acceptRun(in, p), acceptRun(in, p), "lexDelim")

\* The digits that strconv.Unquote accepts in a \u literal.
HexDigits ==
    {"0", "1", "2", "3", "4", "5", "6", "7", "8", "9",
     "a", "b", "c", "d", "e", "f", "A", "B", "C", "D", "E", "F"}

\* scanUnicodeLiteral with l.pos = p, before the first digit: next is
\* called four times.  At the end of the input it returns (eof, nil) and
\* all the input is consumed; otherwise the four runes are unquoted, which
\* gives the rune that they name or the error.
scanUnicodeLiteral(in, p) ==
    IF p + 4 > Len(in)
    THEN [pos |-> Len(in), r |-> "eof", err |-> NoErr]
    ELSE LET d == Slice(in, p, p + 4) IN
         IF \A i \in 1..4 : d[i] \in HexDigits
         THEN [pos |-> p + 4, r |-> "\\u" \o d[1] \o d[2] \o d[3] \o d[4],
               err |-> NoErr]
         ELSE [pos |-> p + 4, r |-> "0",
               err |-> "invalid unicode literal " \o d[1] \o d[2] \o d[3] \o d[4]]

\* The loop of lexKey with l.pos = p and the runes collected so far: it
\* ends before a key terminator (err is nil) or in a call of errorf.
RECURSIVE scanKey(_, _, _)
scanKey(in, p, runes) ==
    IF p >= Len(in)
    THEN [pos |-> p, runes |-> runes, err |-> "premature EOF"]
    ELSE IF in[p + 1] = "\\"
    THEN IF p + 1 >= Len(in)
         THEN [pos |-> p + 1, runes |-> runes, err |-> "premature EOF"]
         ELSE IF in[p + 2] \in {" ", ":", "="}
         THEN scanKey(in, p + 2, Append(runes, in[p + 2]))
         ELSE IF in[p + 2] \in {"u", "U"}
         THEN LET u == scanUnicodeLiteral(in, p + 2) IN
              IF u.err # NoErr
              THEN [pos |-> u.pos, runes |-> runes, err |-> u.err]
              ELSE scanKey(in, u.pos, Append(runes, u.r))
         ELSE [pos |-> p + 2, runes |-> runes,
               err |-> "invalid escape sequence " \o in[p + 2]]
    ELSE IF in[p + 1] \in {" ", ":", "="}
    THEN [pos |-> p, runes |-> runes, err |-> NoErr]
    ELSE scanKey(in, p + 1, Append(runes, in[p + 1]))

\* lexKey from its first statement, with l.pos = p and l.start = s.
lexKey(in, p, s) ==
    IF p >= Len(in)
    THEN Blocked(p, s, Item("itemEOF", s, Slice(in, s, p)), "keyEOF")
    ELSE LET r == scanKey(in, p, <<>>) IN
         IF r.err # NoErr
         THEN Blocked(r.pos, s, Item("itemError", s, <<r.err>>), "errorf")
         ELSE IF Len(r.runes) > 0
         THEN Blocked(r.pos, s, Item("itemKey", s, r.runes), "keyKey")
         ELSE lexKeyTail(in, r.pos)

\* lexDelim from its first statement.
lexDelim(in, p, s) ==
    IF p >= Len(in)
    THEN Blocked(p, s, Item("itemError", s, <<"premature EOF">>), "errorf")
    ELSE Blocked(p + 1, s, Item("itemDelim", s, Slice(in, s, p + 1)), "delim")

\* lexValue from its first statement.
lexValue(in, p, s) ==
    LET p1 == acceptRun(in, p)
        q == scanTo(in, p1, {"\n"})
    IN IF q < Len(in)
       THEN Blocked(q + 1, p1, Item("itemValue", p1, Slice(in, p1, q)), "valueNL")
       ELSE Blocked(q, p1, Item("itemValue", p1, Slice(in, p1, q)), "valueEOF")

\* The call l.state(l) of run's loop.
call(fn, in, p, s) ==
    IF fn = "lexKey" THEN lexKey(in, p, s)
    ELSE IF fn = "lexDelim" THEN lexDelim(in, p, s)
    ELSE lexValue(in, p, s)

\* A state function goes on behind a send that has completed: emitWithValue
\* sets l.start to l.pos, errorf only returns.
resume(label, in, p, s) ==
    IF label = "errorf" THEN Returned(p, s, "nil")
    ELSE IF label = "keyEOF" THEN Returned(p, p, "nil")
    ELSE IF label = "keyKey" THEN lexKeyTail(in, p)
    ELSE IF label = "delim" THEN Returned(p, p, "lexValue")
    ELSE IF label = "valueNL" THEN Returned(p, p, "lexKey")
    ELSE IF label = "valueEOF"
    THEN Blocked(p, p, Item("itemEOF", p, Slice(in, p, p)), "lastEOF")
    ELSE Returned(p, p, "nil")

\* The items of a single run of the state machine that is never interleaved
\* with another one: every send is followed by its continuation, every
\* return by the call of the state function returned.
RECURSIVE itemsOf(_, _)
itemsOf(in, seg) ==
    IF seg.ret = "nil" THEN <<>>
    ELSE IF seg.ret # "" THEN itemsOf(in, call(seg.ret, in, seg.pos, seg.start))
    ELSE <<seg.send>> \o itemsOf(in, resume(seg.cont, in, seg.pos, seg.start))

LexSync(in) == itemsOf(in, lexKey(in, 0, 0))

\* The two goroutines that execute l.run(): lex starts one, parse another.
Runners == {1, 2}

VARIABLES
    pc,                 \* where the caller is: in parse ("expectKey",
                        \* "expectValue", "done", "perr"), after the load
                        \* ("idle", "loadfail") or in a call ("ret")
    preserveFormatting, \* parse's parameter
    disableExpansion,   \* Loader.DisableExpansion
    key,                \* parse: the current key
    comments,           \* parse: the comments read since the last key
    m,                  \* Properties.m: key -> raw value
    k,                  \* Properties.k: the keys in first-seen order
    c,                  \* Properties.c: key -> attached comments
    trailingComments,   \* Properties.trailingComments
    recvd,              \* history: the tokens the parser has received
    loadRet,            \* what LoadBytes returned: [p, err]
    last,               \* the store call that has just returned
    lastSet,            \* history: the last Set that stored a value
    input,              \* lexer.input
    lstate,             \* lexer.state
    pos,                \* lexer.pos
    start,              \* lexer.start
    lastPos,            \* lexer.lastPos
    gpc,                \* where each goroutine of run is
    cont,               \* where a goroutine goes on behind its send
    sending,            \* the item a goroutine is sending
    sendq,              \* lexer.items: the goroutines blocked in a send,
                        \* in the order in which they arrived
    wrote               \* history: the map that Write has written

lexer == <<input, lstate, pos, start, lastPos, gpc, cont, sending, sendq>>

vars == <<pc, preserveFormatting, disableExpansion, key, comments, m, k, c,
          trailingComments, recvd, loadRet, last, lastSet, lexer, wrote>>

store == <<m, k, c, trailingComments>>
parser == <<key, comments, recvd>>
config == <<preserveFormatting, disableExpansion>>

EmptyMap == [x \in {} |-> <<>>]
NoCall == [op |-> "none"]
NoSet == [key |-> <<>>, value |-> <<>>]
NoRet == [p |-> "none", err |-> NoErr]

\* parse, lines 51-60: the comment token split into its marker (with the
\* leading whitespace when formatting is preserved) and its text.
CommentOf(val, preserve) ==
    LET prefixIndex == IF preserve THEN Index(val, TrimSpace(val)) ELSE 0
        prefix == IF preserve THEN Slice(val, 0, prefixIndex + 1) ELSE <<"#">>
    IN [prefix |-> prefix, comment |-> Slice(val, prefixIndex + 1, Len(val))]

\* A parser that appends every key it reads to k.
appendKeyAlways(kk, mm, key1) == Append(kk, key1)

\* parse, lines 63-66: a key goes into k when the map does not hold it.
appendKey(kk, mm, key1) == IF key1 \in DOMAIN mm THEN kk ELSE Append(kk, key1)

\* parse, lines 31-49: the comments when the input has ended where a key
\* could begin.  When formatting is preserved and the end token carries the
\* text of a last comment line, that line is appended.
lastComments(comments1, val, preserve) ==
    IF ~preserve \/ (Len(comments1) = 0 /\ val = <<>>) THEN comments1
    ELSE IF val = <<>> THEN comments1
    ELSE Append(comments1, CommentOf(val, TRUE))

\* A parser that never keeps the comments behind the last key.
trailingDiscard(tc, comments1, val, preserve) == tc

\* parse, lines 31-49: the trailing comments of the store when the input
\* has ended where a key could begin.
trailing(tc, comments1, val, preserve) ==
    IF ~preserve \/ (Len(comments1) = 0 /\ val = <<>>) THEN tc
    ELSE lastComments(comments1, val, preserve)

\* A parser that attaches the comments read to the key, also when there
\* are none.
attachAlways(cc, key1, comments1) ==
    [x \in DOMAIN cc \cup {key1} |-> IF x = key1 THEN comments1 ELSE cc[x]]

\* parse, lines 70-73: the comments read since the last record become the
\* comments of the key, when there are any.
attachComments(cc, key1, comments1) ==
    IF Len(comments1) > 0
    THEN [x \in DOMAIN cc \cup {key1} |-> IF x = key1 THEN comments1 ELSE cc[x]]
    ELSE cc

\* The token kinds expectOneOf is called with at the two places of the loop.
Expected(at) ==
    IF at = "expectKey" THEN {"itemComment", "itemKey", "itemEOF"}
    ELSE {"itemValue", "itemEOF"}

\* The tokens the parser can be fed with at a place of its loop.
FeedTokens(at) ==
    IF at = "expectKey"
    THEN CommentTokens \cup KeyTokens \cup EOFTokens \cup OtherTokens
    ELSE ValueTokens \cup EOFTokens \cup OtherTokens

\* parse, lines 28-81: one pass of the loop from a call of expectOneOf to
\* the next one, for the token that nextItem returned.  A token of a kind
\* that is not expected makes parse panic, and recover turns the panic into
\* parse's error; the named result keeps what was stored so far.
ParseToken(tok) ==
    /\ recvd' = Append(recvd, tok)
    /\ IF tok.typ \notin Expected(pc)
       THEN /\ pc' = "perr"
            /\ UNCHANGED <<key, comments, store>>
       ELSE IF pc = "expectKey" /\ tok.typ = "itemComment"
       THEN /\ comments' = Append(comments, CommentOf(tok.val, preserveFormatting))
            /\ pc' = "expectKey"
            /\ UNCHANGED <<key, store>>
       ELSE IF pc = "expectKey" /\ tok.typ = "itemKey"
       THEN /\ key' = TrimSpace(tok.val)
            /\ k' = appendKey(k, m, key')
            /\ pc' = "expectValue"
            /\ UNCHANGED <<comments, m, c, trailingComments>>
       ELSE IF pc = "expectKey"
       THEN /\ comments' = lastComments(comments, tok.val, preserveFormatting)
            /\ trailingComments' = trailing(trailingComments, comments, tok.val,
                                            preserveFormatting)
            /\ pc' = "done"
            /\ UNCHANGED <<key, m, k, c>>
       ELSE /\ c' = attachComments(c, key, comments)
            /\ comments' = <<>>
            /\ m' = [x \in DOMAIN m \cup {key} |->
                       IF x = key
                       THEN (IF tok.typ = "itemEOF" THEN <<>> ELSE tok.val)
                       ELSE m[x]]
            /\ pc' = IF tok.typ = "itemEOF" THEN "done" ELSE "expectKey"
            /\ UNCHANGED <<key, k, trailingComments>>

\* parse reads the next token of a token stream; only a token that ends the
\* parse is read once MaxTokens tokens have been read.
ParseNext ==
    /\ pc \in {"expectKey", "expectValue"}
    /\ \E tok \in FeedTokens(pc) :
         /\ Len(recvd) < MaxTokens \/ tok \in EOFTokens \cup OtherTokens
         /\ ParseToken(tok)
    /\ UNCHANGED <<config, loadRet, wrote, last, lastSet, lexer>>

\* The comment tokens of comment lines with either marker.
MarkerTokens ==
    {[typ |-> "itemComment", val |-> v] : v \in {<<" ", "#", "c">>, <<"!", "d">>}}

\* parse reads the next token of a token stream whose comment lines begin
\* with either marker.
ParseNextMarked ==
    /\ pc \in {"expectKey", "expectValue"}
    /\ \E tok \in FeedTokens(pc) \cup (IF pc = "expectKey" THEN MarkerTokens ELSE {}) :
         /\ Len(recvd) < MaxTokens \/ tok \in EOFTokens \cup OtherTokens
         /\ ParseToken(tok)
    /\ UNCHANGED <<config, loadRet, wrote, last, lastSet, lexer>>

\* What a segment of goroutine g leaves behind: the lexer's position and
\* start, and either g queued on the channel with its item or the state
\* function that run assigns to l.state.
Leaves(g, seg) ==
    /\ pos' = seg.pos
    /\ start' = seg.start
    /\ IF seg.ret = ""
       THEN /\ gpc' = [gpc EXCEPT ![g] = "send"]
            /\ cont' = [cont EXCEPT ![g] = seg.cont]
            /\ sending' = [sending EXCEPT ![g] = seg.send]
            /\ sendq' = Append(sendq, g)
            /\ UNCHANGED lstate
       ELSE /\ gpc' = [gpc EXCEPT ![g] = "loop"]
            /\ lstate' = seg.ret
            /\ UNCHANGED <<cont, sending, sendq>>

\* run, first statement: the goroutine calls lexKey and runs it until it
\* blocks in a send or returns.
runInit ==
    /\ \E g \in Runners :
         /\ gpc[g] = "init"
         /\ Leaves(g, lexKey(input, pos, start))
    /\ UNCHANGED <<input, lastPos>>
    /\ UNCHANGED <<pc, config, parser, store, loadRet, wrote, last, lastSet>>

\* run, the loop: the goroutine leaves when l.state is nil, and calls
\* l.state otherwise.
runLoop ==
    /\ \E g \in Runners :
         /\ gpc[g] = "loop"
         /\ IF lstate = "nil"
            THEN /\ gpc' = [gpc EXCEPT ![g] = "exit"]
                 /\ UNCHANGED <<lstate, pos, start, cont, sending, sendq>>
            ELSE Leaves(g, call(lstate, input, pos, start))
    /\ UNCHANGED <<input, lastPos>>
    /\ UNCHANGED <<pc, config, parser, store, loadRet, wrote, last, lastSet>>

\* The send of a goroutine has completed: the state function goes on.
runResume ==
    /\ \E g \in Runners :
         /\ gpc[g] = "sent"
         /\ Leaves(g, resume(cont[g], input, pos, start))
    /\ UNCHANGED <<input, lastPos>>
    /\ UNCHANGED <<pc, config, parser, store, loadRet, wrote, last, lastSet>>

\* nextItem in expectOneOf: the parser receives the item of the goroutine
\* that has waited longest, records its position, and parse handles it.
nextItem ==
    /\ pc \in {"expectKey", "expectValue"}
    /\ sendq # <<>>
    /\ LET g == Head(sendq) IN
         /\ lastPos' = sending[g].pos
         /\ gpc' = [gpc EXCEPT ![g] = "sent"]
         /\ ParseToken([typ |-> sending[g].typ, val |-> sending[g].val])
    /\ sendq' = Tail(sendq)
    /\ UNCHANGED <<input, lstate, pos, start, cont, sending>>
    /\ UNCHANGED <<config, loadRet, wrote, last, lastSet>>

\* A loader that hands out what parse had stored when it failed.
LoadBytesRetPartial(parseFailed, disable, checkErr) ==
    IF parseFailed THEN [p |-> "props", err |-> "parse error"]
    ELSE IF disable THEN [p |-> "props", err |-> NoErr]
    ELSE [p |-> "props", err |-> checkErr]

\* Loader.LoadBytes: no store when parse failed; the store unchecked when
\* expansion is disabled; otherwise the store together with check's error.
LoadBytesRet(parseFailed, disable, checkErr) ==
    IF parseFailed THEN [p |-> "nil", err |-> "parse error"]
    ELSE IF disable THEN [p |-> "props", err |-> NoErr]
    ELSE [p |-> "props", err |-> checkErr]

LoadBytes ==
    /\ pc \in {"done", "perr"}
    /\ disableExpansion' \in BOOLEAN
    /\ \E checkErr \in (IF CheckErrs(m) = {} THEN {NoErr} ELSE CheckErrs(m)) :
         loadRet' = LoadBytesRet(pc = "perr", disableExpansion', checkErr)
    /\ IF loadRet'.p = "nil"
       THEN /\ m' = EmptyMap
            /\ k' = <<>>
            /\ c' = EmptyMap
            /\ trailingComments' = <<>>
       ELSE UNCHANGED store
    /\ pc' = IF loadRet'.err = NoErr THEN "idle" ELSE "loadfail"
    /\ key' = <<>>
    /\ comments' = <<>>
    /\ recvd' = IF loadRet'.err = NoErr THEN <<>> ELSE recvd
    /\ UNCHANGED <<preserveFormatting, last, lastSet, lexer, wrote>>

\* ------------------------------------------------------------------------
\* Calls on the store
\* ------------------------------------------------------------------------

\* A caller that holds a store calls Get.
CallGet ==
    /\ pc = "idle"
    /\ \E key1 \in Keys :
         \E r \in {Get(m, key1)} :
         last' = [op |-> "Get", key |-> key1, arg |-> <<>>, val |-> r.val,
                  ok |-> r.ok, err |-> r.err, out |-> r.out]
    /\ pc' = "ret"
    /\ UNCHANGED <<config, parser, store, loadRet, wrote, lastSet, lexer>>

\* A caller that holds a store calls Set.
CallSet ==
    /\ pc = "idle"
    /\ \E key1 \in Keys, value \in Values :
         \E r \in {Set(m, key1, value)} :
         /\ m' = r.mm
         /\ last' = [op |-> "Set", key |-> key1, arg |-> value, val |-> r.val,
                     ok |-> r.ok, err |-> r.err, out |-> r.out]
         /\ lastSet' = IF r.out = "ok" THEN [key |-> key1, value |-> value]
                       ELSE lastSet
    /\ pc' = "ret"
    /\ UNCHANGED <<config, parser, k, c, trailingComments, loadRet, wrote, lexer>>

\* The caller has looked at the result and is ready for its next call.
Return ==
    /\ pc = "ret"
    /\ pc' = "idle"
    /\ last' = NoCall
    /\ UNCHANGED <<config, parser, store, loadRet, wrote, lastSet, lexer>>

\* ------------------------------------------------------------------------
\* Specifications
\* ------------------------------------------------------------------------

EmptyStore ==
    /\ m = EmptyMap
    /\ k = <<>>
    /\ c = EmptyMap
    /\ trailingComments = <<>>

NoParse ==
    /\ key = <<>>
    /\ comments = <<>>
    /\ recvd = <<>>

NoCalls ==
    /\ last = NoCall
    /\ lastSet = NoSet
    /\ wrote = EmptyMap

\* lex: the lexer over an input before any goroutine has run.
NewLexer(in) ==
    /\ input = in
    /\ lstate = "nil"
    /\ pos = 0
    /\ start = 0
    /\ lastPos = 0
    /\ gpc = [g \in Runners |-> "init"]
    /\ cont = [g \in Runners |-> ""]
    /\ sending = [g \in Runners |-> NoItem]
    /\ sendq = <<>>

\* No lexer is at work.
NoLexer ==
    /\ input = <<>>
    /\ lstate = "nil"
    /\ pos = 0
    /\ start = 0
    /\ lastPos = 0
    /\ gpc = [g \in Runners |-> "exit"]
    /\ cont = [g \in Runners |-> ""]
    /\ sending = [g \in Runners |-> NoItem]
    /\ sendq = <<>>

\* The store of NewProperties (which is also what loading the empty input
\* returns), and any sequence of Get and Set calls on it.
Init ==
    /\ EmptyStore
    /\ NoParse
    /\ NoCalls
    /\ NoLexer
    /\ loadRet = NoRet
    /\ pc = "idle"
    /\ preserveFormatting = FALSE
    /\ disableExpansion = FALSE

Next ==
    \/ CallGet
    \/ CallSet
    \/ Return

Spec == Init /\ [][Next]_vars

\* A Loader parses a token stream and hands the store to the caller, who
\* makes one call on it.
InitParse ==
    /\ EmptyStore
    /\ NoParse
    /\ NoCalls
    /\ NoLexer
    /\ loadRet = NoRet
    /\ pc = "expectKey"
    /\ preserveFormatting \in BOOLEAN
    /\ disableExpansion = FALSE

NextParse ==
    \/ ParseNext
    \/ LoadBytes
    \/ CallGet
    \/ CallSet

SpecParse == InitParse /\ [][NextParse]_vars

\* parse over a token stream with comment lines of either marker.
NextMarked == ParseNextMarked

SpecMarked == InitParse /\ [][NextMarked]_vars

\* The orders in which the keys of a set can stand in k.
Orders(S) == {o \in [1..Cardinality(S) -> S] : \A x \in S : \E i \in DOMAIN o : o[i] = x}

\* A store as a load without the expansion check returned it, with any raw
\* values, and one call of Get on it.
InitLoaded ==
    /\ \E S \in SUBSET Keys :
         /\ m \in [S -> Values]
         /\ k \in Orders(S)
    /\ c = EmptyMap
    /\ trailingComments = <<>>
    /\ NoParse
    /\ NoCalls
    /\ NoLexer
    /\ loadRet = [p |-> "props", err |-> NoErr]
    /\ pc = "idle"
    /\ preserveFormatting = FALSE
    /\ disableExpansion = TRUE

NextLoaded == CallGet

SpecExpand == InitLoaded /\ [][NextLoaded]_vars

\* parse over an input: lex and parse have each started a goroutine that
\* executes run, and the parser reads the items from the channel.
InitLex ==
    /\ EmptyStore
    /\ NoParse
    /\ NoCalls
    /\ \E in \in Inputs : NewLexer(in)
    /\ loadRet = NoRet
    /\ pc = "expectKey"
    /\ preserveFormatting = FALSE
    /\ disableExpansion = FALSE

NextLex ==
    \/ runInit
    \/ runLoop
    \/ runResume
    \/ nextItem

SpecLex == InitLex /\ [][NextLex]_vars

\* The scheduler runs every goroutine that can take a step, and the parser
\* receives when an item is offered.
SpecLexFair ==
    /\ SpecLex
    /\ WF_vars(runInit) /\ WF_vars(runLoop) /\ WF_vars(runResume)
    /\ WF_vars(nextItem)

\* ------------------------------------------------------------------------
\* Writing the store, and the parse of a text by one goroutine alone
\* ------------------------------------------------------------------------

\* escape: the line breaks, the tab and the form feed are written as two
\* characters, a rune of special behind a backslash, any other rune as it
\* is.
escape(r, special) ==
    IF r = "\f" THEN <<"\\", "f">>
    ELSE IF r = "\n" THEN <<"\\", "n">>
    ELSE IF r = "\r" THEN <<"\\", "r">>
    ELSE IF r = "\t" THEN <<"\\", "t">>
    ELSE IF r \in special THEN <<"\\", r>>
    ELSE <<r>>

encodeUtf8(s, special) == Flatten([i \in 1..Len(s) |-> escape(s[i], special)])

\* utf8.DecodeRuneInString: the code points of the runes of the model.  A
\* rune that the lexer has decoded from a unicode literal is named by the
\* literal.
CodePoints ==
    "\t" :> 9 @@ "\n" :> 10 @@ "\f" :> 12 @@ "\r" :> 13 @@ " " :> 32 @@
    "!" :> 33 @@ "#" :> 35 @@ "$" :> 36 @@ "0" :> 48 @@ "1" :> 49 @@
    "2" :> 50 @@ "3" :> 51 @@ "4" :> 52 @@ "5" :> 53 @@ "6" :> 54 @@
    "7" :> 55 @@ "8" :> 56 @@ "9" :> 57 @@ ":" :> 58 @@ "=" :> 61 @@
    "?" :> 63 @@ "A" :> 65 @@ "B" :> 66 @@ "C" :> 67 @@ "D" :> 68 @@
    "E" :> 69 @@ "F" :> 70 @@ "\\" :> 92 @@ "a" :> 97 @@ "b" :> 98 @@
    "c" :> 99 @@ "d" :> 100 @@ "e" :> 101 @@ "f" :> 102 @@ "k" :> 107 @@
    "n" :> 110 @@ "r" :> 114 @@ "t" :> 116 @@ "u" :> 117 @@ "v" :> 118 @@
    "w" :> 119 @@ "x" :> 120 @@ "z" :> 122 @@ "{" :> 123 @@ "}" :> 125 @@
    "\\u00ff" :> 255 @@ "\\u0100" :> 256 @@ "\\u2318" :> 8984 @@
    "\\uffff" :> 65535 @@ "\\U00010000" :> 65536

CodePoint(r) == CodePoints[r]

\* The digits of the verb %x.
HexChars ==
    <<"0", "1", "2", "3", "4", "5", "6", "7", "8", "9",
      "a", "b", "c", "d", "e", "f">>

\* fmt.Sprintf("\\u%04x", n) for a code point below 1<<16.
UnicodeLiteral(n) ==
    <<"\\", "u", HexChars[((n \div 4096) % 16) + 1],
      HexChars[((n \div 256) % 16) + 1], HexChars[((n \div 16) % 16) + 1],
      HexChars[(n % 16) + 1]>>

\* An encoding that treats every rune as a single byte rune.
encodeIsoAllSingle(s, special) ==
    Flatten([i \in 1..Len(s) |-> escape(s[i], special)])

\* encodeIso: a single byte rune is escaped, a rune below 1<<16 becomes a
\* unicode literal, any other rune a question mark.
encodeIso(s, special) ==
    Flatten([i \in 1..Len(s) |->
               IF CodePoint(s[i]) < 256 THEN escape(s[i], special)
               ELSE IF CodePoint(s[i]) < 65536 THEN UnicodeLiteral(CodePoint(s[i]))
               ELSE <<"?">>])

Encodings == {"UTF8", "ISO_8859_1"}

encode(s, special, enc) ==
    IF enc = "UTF8" THEN encodeUtf8(s, special) ELSE encodeIso(s, special)

\* Write: the line of every entry, in the order o in which the range over
\* the map meets the keys.
WriteText(mm, o, enc) ==
    Flatten([i \in 1..Len(o) |->
               encode(o[i], {" ", ":"}, enc) \o <<" ", "=", " ">>
                 \o encode(mm[o[i]], {}, enc) \o <<"\n">>])

\* The strings that are encoded hold at most MaxRunes runes.
MaxRunes == 2

\* The runes of the strings that are encoded: a plain one, the ones that
\* are special in a key, the ones with an escape of their own, and the runes
\* at the two limits of encodeIso.
EncodeRunes ==
    {"k", " ", ":", "\n", "\t", "\f", "\r",
     "\\u00ff", "\\u0100", "\\u2318", "\\uffff", "\\U00010000"}

EncodeStrings(n) == UNION {[1..i -> EncodeRunes] : i \in 0..n}

\* A call of encode, with the special characters of a key or of a value.
CallEncode ==
    /\ pc = "idle"
    /\ \E s \in EncodeStrings(MaxRunes) : \E special \in {{" ", ":"}, {}} :
         \E enc \in Encodings :
         last' = [op |-> "encode", arg |-> s, special |-> special, enc |-> enc,
                  val |-> encode(s, special, enc)]
    /\ pc' = "ret"
    /\ UNCHANGED <<config, parser, store, loadRet, wrote, lastSet, lexer>>

\* The longest text before and after a placeholder.
MaxAround == 2

\* Texts without a placeholder: a's before one, b's after one.
Around(ch) == {[i \in 1..n |-> ch] : n \in 0..MaxAround}

\* The texts before a placeholder: a's, or a postfix with no prefix.
Before == Around("a") \cup {Postfix}

\* The names in the placeholders: the keys and a name that is not a key.
SpliceNames == Keys \cup {<<"c">>}

\* The texts that are expanded: one placeholder with text around it.
SpliceInputs ==
    {pre \o Ph(u) \o post :
        pre \in Before, u \in SpliceNames, post \in Around("b")}

\* A call of expand, lines 356-363, on a text.
CallExpand ==
    /\ pc = "idle"
    /\ \E s \in SpliceInputs : \E r \in {PExpand(m, s)} :
         last' = [op |-> "expand", arg |-> s, val |-> r.val, err |-> r.err]
    /\ pc' = "ret"
    /\ UNCHANGED <<config, parser, store, loadRet, wrote, lastSet, lexer>>

\* A store whose values hold no placeholder.
InitSplice ==
    /\ \E S \in SUBSET Keys :
         /\ m \in [S -> {<<"v">>, <<"v", "w">>, <<>>}]
         /\ k \in Orders(S)
    /\ c = EmptyMap
    /\ trailingComments = <<>>
    /\ NoParse
    /\ NoCalls
    /\ NoLexer
    /\ loadRet = [p |-> "props", err |-> NoErr]
    /\ pc = "idle"
    /\ preserveFormatting = FALSE
    /\ disableExpansion = FALSE

NextSplice == CallExpand \/ Return

SpecSplice == InitSplice /\ [][NextSplice]_vars

\* Write: the store is written in some order of the map, in an encoding.
Write ==
    /\ pc = "idle"
    /\ \E o \in Orders(DOMAIN m) : \E enc \in Encodings :
         input' = WriteText(m, o, enc)
    /\ wrote' = m
    /\ pc' = "written"
    /\ UNCHANGED <<config, parser, store, loadRet, last, lastSet>>
    /\ UNCHANGED <<lstate, pos, start, lastPos, gpc, cont, sending, sendq>>

\* parse, lines 17-25, of the text written: a new store is made.
parseWritten ==
    /\ pc = "written"
    /\ m' = EmptyMap
    /\ k' = <<>>
    /\ c' = EmptyMap
    /\ trailingComments' = <<>>
    /\ pc' = "expectKey"
    /\ UNCHANGED <<config, parser, loadRet, wrote, last, lastSet, lexer>>

\* nextItem when one goroutine of run is scheduled alone until parse
\* returns: the parser receives the items in the order of a single run.
nextSync ==
    /\ pc \in {"expectKey", "expectValue"}
    /\ \E toks \in {LexSync(input)} :
         /\ Len(recvd) < Len(toks)
         /\ ParseToken([typ |-> toks[Len(recvd) + 1].typ,
                        val |-> toks[Len(recvd) + 1].val])
    /\ UNCHANGED <<config, loadRet, wrote, last, lastSet, lexer>>

\* Calls of encode.
NextEncode ==
    \/ CallEncode
    \/ Return

SpecEncode == Init /\ [][NextEncode]_vars

\* The texts that are parsed are made of at most MaxPieces pieces.
MaxPieces == 3

\* The pieces: a key and a value character, a key with its delimiter, the
\* space, the delimiters, the tab, the line breaks, the comment marker, and
\* a backslash with a space, with a character that has no escape, with a
\* line break, and with u and an incomplete, a complete and a malformed
\* unicode literal.
Pieces ==
    {<<"k">>, <<"v">>, <<"k", "=">>, <<" ">>, <<"=">>, <<":">>, <<"\t">>,
     <<"\n">>, <<"\r">>, <<"#">>, <<"\\", " ">>, <<"\\", "z">>,
     <<"\\", "\n">>, <<"\\", "u", "1", "2">>,
     <<"\\", "u", "2", "3", "1", "8">>, <<"\\", "u", "g", "h", "3", "2">>}

\* The texts of at most n pieces.
TextsOf(n) == {Flatten(ps) : ps \in UNION {[1..i -> Pieces] : i \in 0..n}}

\* parse over a text, with one goroutine of run scheduled alone.
InitText ==
    /\ EmptyStore
    /\ NoParse
    /\ NoCalls
    /\ \E in \in TextsOf(MaxPieces) : NewLexer(in)
    /\ loadRet = NoRet
    /\ pc = "expectKey"
    /\ preserveFormatting = FALSE
    /\ disableExpansion = FALSE

NextText == nextSync

SpecText == InitText /\ [][NextText]_vars

\* The keys and the values of the stores that are written: plain ones, and
\* ones with a delimiter, a space, a comment marker, a line break or a
\* backslash.
WriteKeys == {<<"k">>, <<"k", "=">>, <<"k", " ", "e">>, <<"#", "k">>}
WriteValues == {<<>>, <<"v">>, <<"v", "\n", "w">>, <<"\\", "v">>, <<"v", " ">>}

\* A store is written, and the text written is parsed with one goroutine
\* of run scheduled alone.
InitWrite ==
    /\ \E S \in {T \in SUBSET WriteKeys : Cardinality(T) <= 2} :
         /\ m \in [S -> WriteValues]
         /\ k \in Orders(S)
    /\ c = EmptyMap
    /\ trailingComments = <<>>
    /\ NoParse
    /\ NoCalls
    /\ NoLexer
    /\ loadRet = [p |-> "props", err |-> NoErr]
    /\ pc = "idle"
    /\ preserveFormatting = FALSE
    /\ disableExpansion = TRUE

NextWrite ==
    \/ Write
    \/ parseWritten
    \/ nextSync

SpecWrite == InitWrite /\ [][NextWrite]_vars

\* ------------------------------------------------------------------------
\* Properties of expansion
\* ------------------------------------------------------------------------

\* The places of s where sub stands.
Places(s, sub) == {i \in 0..(Len(s) - Len(sub)) : Slice(s, i, i + Len(sub)) = sub}

\* The keys whose placeholder stands in v.
Placeholders(v) == {key1 \in Keys : Places(v, Ph(key1)) # {}}

\* v is made of literals and placeholders of keys only: every prefix in it
\* opens the placeholder of a key.
Plain(v) == \A i \in Places(v, Prefix) : \E key1 \in Keys : i \in Places(v, Ph(key1))

\* The raw value of key t refers back to t through the placeholders in it,
\* directly or through another key of the store.
RefersBack(mm, t) ==
    /\ t \in DOMAIN mm
    /\ Plain(mm[t])
    /\ \/ t \in Placeholders(mm[t])
       \/ \E u \in Placeholders(mm[t]) \cap DOMAIN mm :
            Plain(mm[u]) /\ t \in Placeholders(mm[u])

\* A call of Get has returned or panicked.
GetDone == pc = "ret" /\ last.op = "Get"

\* A call of Set has returned or panicked.
SetDone == pc = "ret" /\ last.op = "Set"

\* C1: when the raw value of a key refers back to that key, directly or
\* through another key, Get of that key fails with the circular-reference
\* error and returns no value.
C1_CircularReported ==
    (GetDone /\ RefersBack(m, last.key)) =>
        (last.out = "panic" /\ last.err = Circular)

\* C2: on a store that was loaded and then changed only by calls of Set that
\* returned no error, Get never panics.
C2_GetNeverPanics == GetDone => last.out # "panic"

\* Some prefix in v has no postfix anywhere behind it.
Unterminated(v) ==
    \E i \in Places(v, Prefix) :
        Index(Slice(v, i + Len(Prefix), Len(v)), Postfix) = -1

\* The first prefix in v has no postfix behind it.
FirstUnterminated(v) ==
    /\ Index(v, Prefix) # -1
    /\ Index(Slice(v, Index(v, Prefix) + Len(Prefix), Len(v)), Postfix) = -1

GetOfUnterminated ==
    GetDone /\ last.key \in DOMAIN m /\ Unterminated(m[last.key])

\* C3: a value in which a prefix has no postfix anywhere behind it never
\* expands: Get of its key fails, with the malformed-expression error when
\* the first prefix of the value is the one that is not closed, and with the
\* malformed-expression or the circular-reference error when placeholders
\* stand before it.
C3_UnterminatedFails ==
    GetOfUnterminated =>
        /\ last.out = "panic"
        /\ last.err \in {Malformed, Circular}
        /\ FirstUnterminated(m[last.key]) => last.err = Malformed

\* C3 as the spec states it: the error is the malformed-expression error
\* wherever the prefix stands.
C3_AlwaysMalformed ==
    GetOfUnterminated => (last.out = "panic" /\ last.err = Malformed)

\* C3: the prefix without a postfix stands behind a placeholder, and the
\* expansion has reached it.
C3_Witness ==
    /\ GetOfUnterminated
    /\ ~FirstUnterminated(m[last.key])
    /\ last.err = Malformed

\* ------------------------------------------------------------------------
\* Properties of Set and Get
\* ------------------------------------------------------------------------

\* A step in which a call of Set is made.
SetStep == pc = "idle" /\ pc' = "ret" /\ last'.op = "Set"

\* A step in which a call of Get is made.
GetStep == pc = "idle" /\ pc' = "ret" /\ last'.op = "Get"

\* The tokens received so far assign a value to the key received at i: the
\* value token behind it, or the empty value when the input ends there.
Assigns(r) ==
    {i \in 1..(Len(r) - 1) :
        r[i].typ = "itemKey" /\ r[i + 1].typ \in {"itemValue", "itemEOF"}}
AssignedKey(r, i) == TrimSpace(r[i].val)
AssignedValue(r, i) == IF r[i + 1].typ = "itemValue" THEN r[i + 1].val ELSE <<>>

\* C4, step by step: parse stores the raw value of a value token unchanged
\* and goes on, whether or not it expands; the load that follows a parse
\* without error hands out the store as parsed, with the error of check
\* unless expansion is disabled; Get of a key whose value does not expand
\* panics with the expansion error; Set with a value that does not expand
\* returns the expansion error and leaves the store as it was.
C4_Step ==
    /\ (pc = "expectValue" /\ recvd' # recvd
            /\ recvd'[Len(recvd')].typ = "itemValue") =>
         (pc' = "expectKey" /\ m'[key] = recvd'[Len(recvd')].val)
    /\ (pc = "done" /\ pc' \in {"idle", "loadfail"}) =>
         /\ store' = store
         /\ loadRet'.p = "props"
         /\ IF disableExpansion' \/ CheckErrs(m) = {}
            THEN loadRet'.err = NoErr
            ELSE loadRet'.err \in CheckErrs(m)
    /\ (GetStep /\ last'.key \in DOMAIN m
            /\ PExpand(m, m[last'.key]).err # NoErr) =>
         (last'.out = "panic" /\ last'.err = PExpand(m, m[last'.key]).err)
    /\ (SetStep /\ PExpand(m, last'.arg).err # NoErr) =>
         /\ last'.out = "error"
         /\ last'.err = PExpand(m, last'.arg).err
         /\ m' = m

Expanded(mm, key1) == IF key1 \in DOMAIN mm THEN PExpand(mm, mm[key1]).val ELSE <<>>

\* C5, for a call of Set: a value that does not expand is refused with the
\* error and a previous value that does not expand makes Set panic, the
\* store staying as it was; otherwise Set returns the previous value of the
\* key expanded as Get returns it, reports whether the key was in the store,
\* and the store then maps the key to the value and no other key changes.
C5_Step ==
    SetStep =>
        IF PExpand(m, last'.arg).err # NoErr
        THEN last'.out = "error" /\ m' = m
        ELSE IF last'.key \in DOMAIN m /\ PExpand(m, m[last'.key]).err # NoErr
        THEN last'.out = "panic" /\ m' = m
        ELSE /\ last'.out = "ok"
             /\ last'.ok = (last'.key \in DOMAIN m)
             /\ last'.val = Expanded(m, last'.key)
             /\ DOMAIN m' = DOMAIN m \cup {last'.key}
             /\ m'[last'.key] = last'.arg
             /\ \A x \in DOMAIN m \ {last'.key} : m'[x] = m[x]

\* C5: Set returns the previous value expanded, with the flag, and stores.
C5_SetReturnsExpanded == [][C5_Step]_vars

\* C5 as the spec states it: Set returns the previous raw value.
C5_SetReturnsRaw ==
    [][(SetStep /\ last'.out = "ok" /\ last'.key \in DOMAIN m) =>
            last'.val = m[last'.key]]_vars

\* C5: Set has replaced a value and has answered with a previous value that
\* is not empty.
C5_Witness ==
    /\ SetDone
    /\ last.out = "ok"
    /\ last.ok
    /\ last.val # <<>>
    /\ m[last.key] = last.arg
    /\ last.arg # last.val

\* The store with the value of the last Set that succeeded.
WithLastSet == Assign(m, lastSet.key, lastSet.value)

\* C6: a Get that follows a Set(k, v) that succeeded answers with the
\* expansion computed with v for k: the value when it expands, the panic
\* with its error when it does not.
C6_GetReflectsSet ==
    (GetDone /\ lastSet # NoSet /\ last.key \in DOMAIN m) =>
        IF PExpand(WithLastSet, WithLastSet[last.key]).err = NoErr
        THEN /\ last.out = "ok"
             /\ last.val = PExpand(WithLastSet, WithLastSet[last.key]).val
        ELSE /\ last.out = "panic"
             /\ last.err = PExpand(WithLastSet, WithLastSet[last.key]).err

\* C6: Get of a key whose raw value holds the placeholder of another key
\* has answered with the value last set for that key.
C6_Witness ==
    /\ GetDone
    /\ last.out = "ok"
    /\ last.key \in DOMAIN m
    /\ lastSet.key # last.key
    /\ lastSet.key \in Placeholders(m[last.key])
    /\ lastSet.value = <<"x">>
    /\ Places(last.val, <<"x">>) # {}

\* ------------------------------------------------------------------------
\* Properties of the store after a parse
\* ------------------------------------------------------------------------

\* The elements of a sequence.
Range(seq) == {seq[i] : i \in DOMAIN seq}

\* C7: every key of k is in the map and stands once in k, every key of the
\* map is in k, and every key with comments is in k.
C7_OrderMatchesMap ==
    (pc \in {"done", "idle", "ret"}) =>
        /\ \A i \in DOMAIN k : k[i] \in DOMAIN m
        /\ \A i, j \in DOMAIN k : k[i] = k[j] => i = j
        /\ DOMAIN m \subseteq Range(k)
        /\ DOMAIN c \subseteq Range(k)

\* The keys the tokens assign, in the order of the first assignment to each.
RECURSIVE FirstSeen(_, _)
FirstSeen(r, n) ==
    IF n = 0 THEN <<>>
    ELSE LET before == FirstSeen(r, n - 1) IN
         IF n \in Assigns(r) /\ AssignedKey(r, n) \notin Range(before)
         THEN Append(before, AssignedKey(r, n))
         ELSE before

\* The place of the last assignment to key t.
LastAssign(r, t) ==
    CHOOSE i \in Assigns(r) :
        /\ AssignedKey(r, i) = t
        /\ \A j \in Assigns(r) : AssignedKey(r, j) = t => j <= i

ParseFailed == recvd # <<>> /\ recvd[Len(recvd)].typ = "itemError"

\* C9: when the parse has failed, LoadBytes returns the error and no store.
C9_NoStoreOnError ==
    (pc = "loadfail" /\ ParseFailed) =>
        /\ loadRet.p = "nil"
        /\ loadRet.err = "parse error"
        /\ m = EmptyMap
        /\ k = <<>>

\* C9: the parse had stored a key with its value before the error.
C9_Witness ==
    /\ pc = "loadfail"
    /\ ParseFailed
    /\ Assigns(recvd) # {}
    /\ loadRet.p = "nil"

\* The comment tokens that r holds right before place i, without another
\* token in between, as parse keeps them.
RECURSIVE CommentsBefore(_, _, _)
CommentsBefore(r, i, preserve) ==
    IF i > 1 /\ r[i - 1].typ = "itemComment"
    THEN Append(CommentsBefore(r, i - 1, preserve),
                CommentOf(r[i - 1].val, preserve))
    ELSE <<>>

\* The number of comment lines that are among the comments of the keys S.
RECURSIVE Attached(_, _)
Attached(cc, S) ==
    IF S = {} THEN 0
    ELSE LET t == CHOOSE x \in S : TRUE
         IN Len(cc[t]) + Attached(cc, S \ {t})

\* The places where key t is assigned right behind comment lines.
Commented(r, t) ==
    {i \in Assigns(r) :
        AssignedKey(r, i) = t /\ i > 1 /\ r[i - 1].typ = "itemComment"}

EndedBetweenRecords ==
    /\ pc = "done"
    /\ recvd # <<>>
    /\ recvd[Len(recvd)].typ = "itemEOF"
    /\ (Len(recvd) = 1 \/ recvd[Len(recvd) - 1].typ # "itemKey")

\* The comment lines behind the last record of the tokens received: the
\* comment tokens before the end token, and the text of the end token when
\* it carries a last comment line.
TrailingLines(r, preserve) ==
    CommentsBefore(r, Len(r), preserve) \o
        (IF r[Len(r)].val # <<>> THEN <<CommentOf(r[Len(r)].val, preserve)>>
         ELSE <<>>)

C10_TokensAsSync ==
    /\ Len(recvd) <= Len(LexSync(input))
    /\ \A i \in 1..Len(recvd) :
         /\ i <= Len(LexSync(input))
         /\ recvd[i].typ = LexSync(input)[i].typ
         /\ recvd[i].val = LexSync(input)[i].val

\* ------------------------------------------------------------------------
\* Properties of Write and of the parse of a text
\* ------------------------------------------------------------------------

\* parse has returned, with the store or with the error.
ParseReturned == pc \in {"done", "perr"}

\* parse has returned the store with the single entry key1 -> value.
ParsedOne(key1, value) ==
    /\ pc = "done"
    /\ k = <<key1>>
    /\ m = [x \in {key1} |-> value]

\* The entries that the key and value tokens of a run of the lexer stand
\* for: a key token, trimmed as parse trims it, with the value token that
\* comes next, or with "" when none comes.
RECURSIVE entriesOf(_, _)
entriesOf(toks, mm) ==
    IF toks = <<>> THEN mm
    ELSE IF Head(toks).typ # "itemKey" THEN entriesOf(Tail(toks), mm)
    ELSE LET key1 == TrimSpace(Head(toks).val)
             hasValue == Len(toks) >= 2 /\ toks[2].typ = "itemValue"
             value == IF hasValue THEN toks[2].val ELSE <<>>
         IN entriesOf(IF hasValue THEN Tail(Tail(toks)) ELSE Tail(toks),
                      [x \in DOMAIN mm \cup {key1} |->
                         IF x = key1 THEN value ELSE mm[x]])

\* The lexer scans the text without an error, and its key and value tokens
\* stand for the entries of mm.
LexedAs(in, mm) ==
    LET toks == LexSync(in) IN
    /\ \A i \in 1..Len(toks) : toks[i].typ # "itemError"
    /\ entriesOf(SelectSeq(toks, LAMBDA t : t.typ \in {"itemKey", "itemValue"}),
                 EmptyMap) = mm

\* C11: when the text that Write has written for a store is parsed again,
\* the parse succeeds and yields the keys and the values of the store that
\* was written, also when a key or a value holds a delimiter, a space, a
\* comment marker, a backslash or a line break; or at least the key and
\* value tokens of the lexer stand for that store.
C11_WriteRoundTrip ==
    ParseReturned => ((pc = "done" /\ m = wrote) \/ LexedAs(input, wrote))

\* The delimiter styles: a delimiter, whitespace, or a delimiter with
\* whitespace before or behind it.
Separators ==
    {<<" ">>, <<"\t">>, <<"=">>, <<":">>} \cup
    {<<w, d>> : w \in {" ", "\t"}, d \in {"=", ":"}} \cup
    {<<d, w>> : w \in {" ", "\t"}, d \in {"=", ":"}}

\* parse has returned the single entry key1 -> value, or at least the
\* tokens of the lexer stand for it.
YieldsOne(key1, value) ==
    ParsedOne(key1, value) \/ LexedAs(input, [x \in {key1} |-> value])

\* C12: the parse of a key, a delimiter style and a value succeeds and
\* yields the single entry key -> value.
C12_DelimiterStyles ==
    \A d \in Separators :
        (ParseReturned /\ input = <<"k">> \o d \o <<"v">>) =>
            YieldsOne(<<"k">>, <<"v">>)

\* C13: the parse of a key alone, with the end of the input or a line break
\* right behind it, succeeds and yields the single entry key -> "".
C13_KeyAlone ==
    (ParseReturned /\ input \in {<<"k">>, <<"k", "\n">>}) =>
        ParsedOne(<<"k">>, <<>>)

\* C14: a backslash right before the line break continues the value on the
\* next line: the backslash and the line break are not part of the value.
C14_Continuation ==
    (ParseReturned /\ input \in {<<"k", "=", "\\", "\n", "v">>,
                                 <<"k", "=", "v", "\\", "\n">>}) =>
        YieldsOne(<<"k">>, <<"v">>)

\* The line terminators.
Terminators == {<<"\n">>, <<"\r">>, <<"\r", "\n">>}

\* C15: each of the line terminators ends the value and is not part of it.
C15_Terminators ==
    \A t \in Terminators : \A v \in {<<>>, <<"v">>} :
        (ParseReturned /\ input = <<"k", "=">> \o v \o t) =>
            YieldsOne(<<"k">>, v)

\* Keys with an escaped space at the first, at an inner and at the last
\* place, as they are written in the text.
EscapedKeys ==
    {[text |-> <<"\\", " ", "k">>, key |-> <<" ", "k">>],
     [text |-> <<"k", "\\", " ", "k">>, key |-> <<"k", " ", "k">>],
     [text |-> <<"k", "\\", " ">>, key |-> <<"k", " ">>]}

\* C16: an escaped space is a character of the key at every place of the
\* key: the key that parse takes from the key token is the key with the
\* space and without the backslash.
C16_EscapedInKey ==
    \A e \in EscapedKeys : \A v \in {<<>>, <<"v">>} :
        (ParseReturned /\ input = e.text \o <<"=">> \o v) =>
            (key = e.key /\ k = <<e.key>>)

\* Texts with a unicode literal in the key that is cut short by the end of
\* the input or holds a character that is no hex digit.
BadLiterals ==
    {<<"k", "\\", "u", "1", "2">>,
     <<"\\", "u", "1", "2">>,
     <<"\\", "u", "1", "2", "=", "v">>,
     <<"\\", "u", "g", "h", "3", "2", "=", "v">>}

\* The errors of the lexer that are not about a unicode literal.
OtherErrors ==
    {"premature EOF"} \cup
    {"invalid escape sequence " \o ch : ch \in {"z", "\n", "k", "v", "#", "\t", "\r"}}

\* C17: the parse of a text with such a literal fails with the error of an
\* invalid unicode literal and stores no entry.
C17_InvalidLiteralFails ==
    (ParseReturned /\ input \in BadLiterals) =>
        /\ pc = "perr"
        /\ recvd[Len(recvd)].typ = "itemError"
        /\ recvd[Len(recvd)].val[1] \notin OtherErrors
        /\ m = EmptyMap

\* C18: a backslash before a character that has no escape is dropped and
\* the character is kept, in the key and in the value; the parse succeeds.
C18_UnknownEscapeDropped ==
    /\ (ParseReturned /\ input = <<"k", "\\", "z", "=", "v">>) =>
           YieldsOne(<<"k", "z">>, <<"v">>)
    /\ (ParseReturned /\ input = <<"k", "=", "\\", "z", "v">>) =>
           YieldsOne(<<"k">>, <<"z", "v">>)

\* Texts of one line whose first character that is no whitespace is the
\* comment marker.
CommentLines ==
    {<<"#">>, <<"#", "k">>, <<"#", "k", "\n">>, <<" ", "#", "k">>,
     <<"#", "k", "=", "v">>, <<"#", " ", "k">>}

\* C19: a comment line makes no entry and no error, and a comment marker
\* behind the first character of a key is a character of the key.
C19_CommentLines ==
    /\ (ParseReturned /\ input \in CommentLines) =>
           (pc = "done" /\ PLen(m) = 0)
    /\ (ParseReturned /\ input = <<"k", "#", "=">>) =>
           YieldsOne(<<"k", "#">>, <<>>)

\* C22: the text that Write has written holds the line of each key of the
\* store once, in the order in which the keys were first seen.
C22_WriteInKeyOrder ==
    pc = "written" =>
        \E enc \in Encodings : input = WriteText(wrote, k, enc)

\* The encoding of one rune for the single byte target, as it has to be.
IsoOf(r, special) ==
    IF r = "\f" THEN <<"\\", "f">>
    ELSE IF r = "\n" THEN <<"\\", "n">>
    ELSE IF r = "\r" THEN <<"\\", "r">>
    ELSE IF r = "\t" THEN <<"\\", "t">>
    ELSE IF CodePoint(r) < 256
    THEN (IF r \in special THEN <<"\\", r>> ELSE <<r>>)
    ELSE IF CodePoint(r) <= 65535
    THEN LET n == CodePoint(r)
             a == CHOOSE x \in 0..15 : n - x * 4096 \in 0..4095
             b == CHOOSE x \in 0..15 : n - a * 4096 - x * 256 \in 0..255
             cc == CHOOSE x \in 0..15 : n - a * 4096 - b * 256 - x * 16 \in 0..15
             d == n - a * 4096 - b * 256 - cc * 16
         IN <<"\\", "u", HexChars[a + 1], HexChars[b + 1], HexChars[cc + 1],
              HexChars[d + 1]>>
    ELSE <<"?">>

\* C23: the encoding for the single byte target is the encoding of each of
\* the runes in turn: the form feed, the line breaks and the tab as their
\* escapes, any other rune below 256 as it is, behind a backslash when it
\* is special, a rune up to 65535 as a unicode literal of four hex digits,
\* any other rune as a question mark; all runes of the result are below 256.
C23_IsoEncoding ==
    (pc = "ret" /\ last.op = "encode" /\ last.enc = "ISO_8859_1") =>
        /\ last.val = Flatten([i \in 1..Len(last.arg) |->
                                 IsoOf(last.arg[i], last.special)])
        /\ \A i \in 1..Len(last.val) : CodePoint(last.val[i]) < 256

\* C23: a string with a rune above 65535 and a rune between 256 and 65535
\* has been encoded for the single byte target.
C23_Witness ==
    /\ pc = "ret"
    /\ last.op = "encode"
    /\ last.enc = "ISO_8859_1"
    /\ \E i, j \in 1..Len(last.arg) :
         /\ CodePoint(last.arg[i]) > 65535
         /\ CodePoint(last.arg[j]) \in 256..65535
    /\ last.val = <<"?", "\\", "u", "2", "3", "1", "8">>

\* ------------------------------------------------------------------------
\* Properties of the steps of expansion
\* ------------------------------------------------------------------------

\* The literals before and behind a placeholder.
Literals == {<<>>, <<"x">>}

\* C24: Get of a key whose value is a placeholder of key u between literals
\* answers, without error, the literals around the value that the store
\* holds for u, also when the environment has a variable named u; around
\* the value of the environment variable u when the store does not hold u;
\* and around nothing when neither holds u.  (The value that stands for u
\* holds no prefix.)
C24_StoreBeforeEnvironment ==
    \A u \in Keys : \A l1, l2 \in Literals :
        (GetDone /\ last.key \in DOMAIN m
                 /\ m[last.key] = l1 \o Ph(u) \o l2) =>
            /\ (u \in DOMAIN m /\ Index(m[u], Prefix) = -1) =>
                   (last.out = "ok" /\ last.val = l1 \o m[u] \o l2)
            /\ (u \notin DOMAIN m /\ u \in DOMAIN Env) =>
                   (last.out = "ok" /\ last.val = l1 \o Env[u] \o l2)
            /\ (u \notin DOMAIN m /\ u \notin DOMAIN Env) =>
                   (last.out = "ok" /\ last.val = l1 \o l2)

\* C24: the placeholder names a key that the store and the environment both
\* hold with different values, and Get has answered the value of the store.
C24_Witness ==
    /\ GetDone
    /\ last.key \in DOMAIN m
    /\ \E u \in DOMAIN m \cap DOMAIN Env :
         /\ m[last.key] = Ph(u)
         /\ Index(m[u], Prefix) = -1
         /\ m[u] # Env[u]
         /\ last.val = m[u]

\* C25: the expansion of the value of a key ends with a value or with one
\* of the two errors, and every recursive call expands a key that no call
\* before it has expanded: there are as many calls as keys expanded.
C25_ExpansionEnds ==
    (GetDone /\ last.key \in DOMAIN m) =>
        /\ PExpand(m, m[last.key]).err \in {NoErr, Malformed, Circular}
        /\ PExpand(m, m[last.key]).n = Cardinality(PExpand(m, m[last.key]).seen)
        /\ (last.out = "ok") = (PExpand(m, m[last.key]).err = NoErr)

\* C25 as stated: there are at most as many recursive calls as the store
\* has keys.
C25_BoundedByStoreKeys ==
    (GetDone /\ last.key \in DOMAIN m) =>
        PExpand(m, m[last.key]).n <= Cardinality(DOMAIN m)

\* C25: the value of the only key of the store refers to the key itself
\* behind the placeholder of another key; the expansion has made two
\* recursive calls and has ended with the error.
C25_Witness ==
    /\ GetDone
    /\ DOMAIN m = {last.key}
    /\ last.key \in Placeholders(m[last.key])
    /\ PExpand(m, m[last.key]).n = 2
    /\ last.err = Circular

\* Some key of the store is reachable from itself through the placeholders
\* in the values of the store.
Cyclic(mm) ==
    \E u \in DOMAIN mm :
        \/ u \in Placeholders(mm[u])
        \/ \E w \in DOMAIN mm \cap Placeholders(mm[u]) : u \in Placeholders(mm[w])

\* C26: Get fails with the circular-reference error only on a store in
\* which some key is reachable from itself; a value that names a key twice
\* whose value is a literal expands to the literal twice.
C26_CircularOnlyOnCycle ==
    /\ (GetDone /\ last.err = Circular) => Cyclic(m)
    /\ \A u \in Keys :
         (GetDone /\ last.key \in DOMAIN m /\ u \in DOMAIN m
                  /\ m[last.key] = Ph(u) \o Ph(u) /\ m[u] = <<"x">>) =>
             (last.out = "ok" /\ last.val = <<"x", "x">>)

\* The text s is pre, a placeholder of the name u, and post.
SplitAt(s, pre, u, post) ==
    /\ pre \in Before /\ u \in SpliceNames /\ post \in Around("b")
    /\ s = pre \o Ph(u) \o post

TerminalTypes == {"itemEOF", "itemError"}

\* The terminal tokens emitted: the ones received and the ones in a send.
TerminalsEmitted ==
    Cardinality({i \in 1..Len(recvd) : recvd[i].typ \in TerminalTypes})
    + Cardinality({g \in Runners :
                     gpc[g] = "send" /\ sending[g].typ \in TerminalTypes})

\* The helper acceptUntil, called at the start of the input to skip a line,
\* ends.
AcceptUntilEnds == acceptUntil(input, 0, "\n").ends

\* Every goroutine that runs the state machine has left run.
LexerEnded == \A g \in Runners : gpc[g] = "exit"

\* C28: tokenizing an input ends: at most one terminal token is ever
\* emitted, and every goroutine that runs the state machine leaves run.
C28_TokenizingEnds ==
    /\ [](TerminalsEmitted <= 1)
    /\ <>LexerEnded

\* C29: once parse has returned, with a store or with an error, every
\* goroutine that runs the state machine leaves run: none stays blocked
\* in a send on the channel.
C29_NoGoroutineLeftBlocked ==
    (pc \in {"done", "perr"}) ~> LexerEnded

\* C30: a Set that returns an error because the new value does not expand
\* leaves the store as it was: the same keys with the same values, the
\* same Len and the same result of every Get.
C30_FailedSetLeavesStore ==
    [][(SetStep /\ last'.out = "error") =>
          /\ m' = m
          /\ k' = k
          /\ PLen(m') = PLen(m)
          /\ \A key1 \in Keys : Get(m', key1) = Get(m, key1)]_vars

\* A Set of a new key has failed on a store that holds another key.
C30_Witness ==
    /\ SetDone
    /\ last.out = "error"
    /\ last.err \in {Malformed, Circular}
    /\ m # EmptyMap
    /\ last.key \notin DOMAIN m

====
